---- MODULE Spec2Model ----
(***************************************************************************)
(* Quotient filter of go-qfext (package qf, type QF): the slot table with  *)
(* its three metadata bits per slot, the remainder vector, the optional    *)
(* per-entry storage vector, insertion with cascade shift, lookup,         *)
(* enumeration of the stored hash values and doubling.                     *)
(*                                                                         *)
(* The word width is scaled down from 64 bits to WordBits bits; a hash     *)
(* value is a WordBits-bit unsigned integer and is the input of insert     *)
(* (the hash function is a plug-in, qf.hashfn).                            *)
(***************************************************************************)
EXTENDS Integers, Sequences, FiniteSets, TLC

\* ---------------------------------------------------------------- bounds
\* width of a hash value (BitsPerWord, scaled down from 64)
WordBits == 4
\* largest number of quotient bits the filter may grow to
MaxQBits == 3
\* largest c.QBits a filter is constructed with
MaxInitQBits == 2
\* largest number of distinct hash values handed to a filter without storage
MaxLen == 4
\* largest number of distinct hash values handed to a filter with storage
MaxLenStorage == 3
\* c.BitsOfStoragePerEntry of a filter constructed with external storage
StorageBits == 1
\* largest number of distinct hash values handed to a filter that is written
MaxLenIO == 2
\* largest number of words a file loses at its end
MaxCut == 2
\* largest number of elements of a vector on its own
MaxVecSize == 4
\* how many of the lowest and of the highest values of a width are stored
VecEdge == 1

\* ------------------------------------------------------------- arithmetic
RECURSIVE Pow2(_)
Pow2(n) == IF n = 0 THEN 1 ELSE 2 * Pow2(n - 1)

HashValues == 0 .. (Pow2(WordBits) - 1)

\* the value stored for a filter without external storage (qf.storage == nil)
NoStorage == << >>

\* ------------------------------------------------------- metadata access
\* metadata.empty
empty(md) == ~md.occupied /\ ~md.continuation /\ ~md.shifted

\* QF.read
read(f, slot) ==
    [occupied     |-> f.occupied[slot],
     continuation |-> f.continuation[slot],
     shifted      |-> f.shifted[slot]]

\* QF.right
right(f, i) == IF i + 1 >= f.size THEN 0 ELSE i + 1

\* QF.left
left(f, i) == IF i = 0 THEN f.size - 1 ELSE i - 1

\* QF.countEntries
countEntries(f) == Cardinality({i \in 0 .. (f.size - 1) : ~empty(read(f, i))})

\* ----------------------------------------------------------- construction
\* QF.initForQuotientBits with a loading factor above one: maxEntries is
\* size + 1, so the table is never doubled before it is full
initForQuotientBitsFull(qBits) ==
    [qBits      |-> qBits,
     size       |-> Pow2(qBits),
     rBits      |-> WordBits - qBits,
     rMask      |-> Pow2(WordBits - qBits) - 1,
     maxEntries |-> Pow2(qBits) + 1]

\* QF.initForQuotientBits: rMask is built bit by bit, maxEntries is
\* ceil(size * MaxLoadingFactor) with MaxLoadingFactor = 0.65
initForQuotientBits(qBits) ==
    [qBits      |-> qBits,
     size       |-> Pow2(qBits),
     rBits      |-> WordBits - qBits,
     rMask      |-> Pow2(WordBits - qBits) - 1,
     maxEntries |-> (Pow2(qBits) * 65 + 99) \div 100]

\* NewWithConfig: all metadata bits clear, vectors zeroed, storage only
\* when c.BitsOfStoragePerEntry > 0
NewWithConfig(c) ==
    LET p == initForQuotientBits(c.QBits)
        slots == 0 .. (p.size - 1)
    IN  [qBits        |-> p.qBits,
         size         |-> p.size,
         rBits        |-> p.rBits,
         rMask        |-> p.rMask,
         maxEntries   |-> p.maxEntries,
         entries      |-> 0,
         occupied     |-> [i \in slots |-> FALSE],
         continuation |-> [i \in slots |-> FALSE],
         shifted      |-> [i \in slots |-> FALSE],
         remainders   |-> [i \in slots |-> 0],
         storage      |-> IF c.BitsOfStoragePerEntry > 0
                          THEN [i \in slots |-> 0] ELSE NoStorage,
         config       |-> c]

\* QF.hash: the quotient is the high qBits bits, the remainder the low rBits
hash(f, hv) == [dq |-> hv \div Pow2(f.rBits), dr |-> hv % (f.rMask + 1)]

\* ------------------------------------------------------------- run lookup
\* result of a scan that did not come to an end within its hop budget
Hang == -1

\* QF.findStart, second loop: scan right until the run of dq is reached
RECURSIVE scanRight(_, _, _, _, _)
scanRight(f, dq, runs, complete, hops) ==
    IF ~(runs > complete) THEN dq
    ELSE IF hops > 2 * f.size THEN Hang
    ELSE scanRight(f, right(f, dq), runs,
                   IF ~f.continuation[right(f, dq)] THEN complete + 1 ELSE complete,
                   hops + 1)

\* QF.findStart, first loop: scan left from dq to the start of the cluster
\* counting the runs to skip and the run starts seen, then scan right
RECURSIVE scanLeft(_, _, _, _, _, _)
scanLeft(f, dq, i, runs, complete, hops) ==
    IF ~f.shifted[i]
    THEN scanRight(f, dq, runs,
                   IF ~f.continuation[i] THEN complete + 1 ELSE complete, 0)
    ELSE IF hops > 2 * f.size THEN Hang
    ELSE scanLeft(f, dq, left(f, i),
                  IF f.occupied[i] THEN runs + 1 ELSE runs,
                  IF ~f.continuation[i] THEN complete + 1 ELSE complete,
                  hops + 1)

\* QF.findStart
findStart(f, dq) == scanLeft(f, dq, dq, 1, 0, 0)

\* Vector.Get on the storage vector, 0 when qf.storage == nil
storageGet(f, slot) == IF f.storage = NoStorage THEN 0 ELSE f.storage[slot]

\* QF.lookupByHash, the walk along the run from the slot findStart yields
RECURSIVE lookupWalk(_, _, _, _)
lookupWalk(f, slot, dr, hops) ==
    IF slot = Hang THEN [found |-> FALSE, value |-> 0, hang |-> TRUE]
    ELSE IF f.remainders[slot] = dr
    THEN [found |-> TRUE, value |-> storageGet(f, slot), hang |-> FALSE]
    ELSE IF f.remainders[slot] > dr THEN [found |-> FALSE, value |-> 0, hang |-> FALSE]
    ELSE IF hops > 2 * f.size THEN [found |-> FALSE, value |-> 0, hang |-> TRUE]
    ELSE IF ~f.continuation[right(f, slot)]
    THEN [found |-> FALSE, value |-> 0, hang |-> FALSE]
    ELSE lookupWalk(f, right(f, slot), dr, hops + 1)

\* QF.lookupByHash
lookupByHash(f, dq, dr) ==
    IF ~f.occupied[dq] THEN [found |-> FALSE, value |-> 0, hang |-> FALSE]
    ELSE lookupWalk(f, findStart(f, dq), dr, 0)

\* QF.Lookup of a key whose hash value is hv
Lookup(f, hv) == lookupByHash(f, hash(f, hv).dq, hash(f, hv).dr)

\* QF.Contains
Contains(f, hv) == Lookup(f, hv).found

\* QF.Len
QFLen(f) == f.entries

\* ------------------------------------------------------------------ insert
\* QF.insertByHash, the loop that finds the spot within the run
RECURSIVE spotInRun(_, _, _, _)
spotInRun(f, slot, dr, hops) ==
    IF empty(read(f, slot)) \/ f.remainders[slot] >= dr THEN slot
    ELSE IF hops > 2 * f.size THEN Hang
    ELSE IF ~f.continuation[right(f, slot)] THEN right(f, slot)
    ELSE spotInRun(f, right(f, slot), dr, hops + 1)

\* QF.insertByHash, the cascade shift: swap (dr, value) into slot, write the
\* continuation and shifted bits of the entry now stored there, and carry
\* the displaced entry to the right until an empty slot has been filled
RECURSIVE shiftLoop(_, _, _, _, _, _, _, _, _)
shiftLoop(f, slot, dr, value, continuation, shifted, runStart, extendingRun, hops) ==
    LET nxt == [read(f, slot) EXCEPT !.continuation =
                    IF (slot = runStart) /\ extendingRun THEN TRUE ELSE @]
        f1  == [f EXCEPT !.remainders[slot]   = dr,
                         !.storage            = IF f.storage = NoStorage THEN @
                                                ELSE [@ EXCEPT ![slot] = value],
                         !.continuation[slot] = continuation,
                         !.shifted[slot]      = shifted]
    IN  IF empty(nxt) THEN [qf |-> f1, update |-> FALSE, hang |-> FALSE]
        ELSE IF hops > 2 * f.size THEN [qf |-> f1, update |-> FALSE, hang |-> TRUE]
        ELSE shiftLoop(f1, right(f, slot), f.remainders[slot], storageGet(f, slot),
                       nxt.continuation, TRUE, runStart, extendingRun, hops + 1)

\* QF.insertByHash from the match test on: f has the occupied bit of dq set,
\* slot is where the spot loop stopped
insertAtSlot(f, dq, dr, value, extendingRun, runStart, slot) ==
    IF slot = Hang THEN [qf |-> f, update |-> FALSE, hang |-> TRUE]
    ELSE IF dr = f.remainders[slot]
    THEN [qf |-> [f EXCEPT !.storage = IF f.storage = NoStorage THEN @
                                       ELSE [@ EXCEPT ![slot] = value]],
          update |-> TRUE, hang |-> FALSE]
    ELSE shiftLoop([f EXCEPT !.entries = @ + 1], slot, dr, value,
                   slot # runStart, slot # dq, runStart, extendingRun, 0)

\* QF.insertByHash from the spot search on: f has the occupied bit of dq set,
\* runStart is what findStart returned
insertInRun(f, dq, dr, value, extendingRun, runStart) ==
    IF runStart = Hang THEN [qf |-> f, update |-> FALSE, hang |-> TRUE]
    ELSE insertAtSlot(f, dq, dr, value, extendingRun, runStart,
                      IF extendingRun THEN spotInRun(f, runStart, dr, 0)
                      ELSE runStart)

\* QF.insertByHash that sets the occupied bit of dq only when the slot of dq
\* is empty
insertByHashUnmarked(f, dq, dr, value) ==
    IF empty(read(f, dq))
    THEN [qf |-> [f EXCEPT !.occupied[dq] = TRUE,
                           !.entries = @ + 1,
                           !.remainders[dq] = dr,
                           !.storage = IF f.storage = NoStorage THEN @
                                       ELSE [@ EXCEPT ![dq] = value]],
          update |-> FALSE, hang |-> FALSE]
    ELSE insertInRun(f, dq, dr, value, f.occupied[dq], findStart(f, dq))

\* QF.insertByHash
insertByHash(f, dq, dr, value) ==
    IF empty(read(f, dq))
    THEN [qf |-> [f EXCEPT !.occupied[dq] = TRUE,
                           !.entries = @ + 1,
                           !.remainders[dq] = dr,
                           !.storage = IF f.storage = NoStorage THEN @
                                       ELSE [@ EXCEPT ![dq] = value]],
          update |-> FALSE, hang |-> FALSE]
    ELSE insertInRun([f EXCEPT !.occupied[dq] = TRUE], dq, dr, value,
                     f.occupied[dq],
                     findStart([f EXCEPT !.occupied[dq] = TRUE], dq))

\* ------------------------------------------------------------- enumeration
\* QF.eachHashValue, the search for an unshifted slot to start from
RECURSIVE unshiftedStart(_, _, _)
unshiftedStart(f, start, hops) ==
    IF ~f.shifted[start] THEN start
    ELSE IF hops > 2 * f.size THEN Hang
    ELSE unshiftedStart(f, right(f, start), hops + 1)

\* QF.eachHashValue, the traversal from start to end: the sequence of the
\* callback's arguments <<hash value, slot>>, in call order
RECURSIVE eachLoop(_, _, _, _, _)
eachLoop(f, i, end, stack, out) ==
    LET md == read(f, i)
        s1 == IF ~md.continuation /\ Len(stack) > 0 THEN Tail(stack) ELSE stack
        s2 == IF md.occupied THEN Append(s1, i) ELSE s1
        o2 == IF Len(s2) > 0
              THEN Append(out, <<Head(s2) * Pow2(f.rBits)
                                 + (f.remainders[i] % (f.rMask + 1)), i>>)
              ELSE out
    IN  IF i = end THEN o2 ELSE eachLoop(f, right(f, i), end, s2, o2)

\* QF.eachHashValue, the traversal from the unshifted slot found
eachFrom(f, start) ==
    IF start = Hang THEN [calls |-> << >>, hang |-> TRUE]
    ELSE [calls |-> eachLoop(f, start, left(f, start), << >>, << >>),
          hang  |-> FALSE]

\* QF.eachHashValue
eachHashValue(f) == eachFrom(f, unshiftedStart(f, 0, 0))

\* ----------------------------------------------------------------- doubling
\* QF.double, the callback applied to the enumerated entries in order: r is
\* what cpy.insertByHash made of the k-th entry
RECURSIVE replay(_, _, _, _)
replay(f, r, calls, k) ==
    IF r.hang THEN [qf |-> r.qf, update |-> FALSE, hang |-> TRUE]
    ELSE IF k >= Len(calls) THEN [qf |-> r.qf, update |-> FALSE, hang |-> FALSE]
    ELSE replay(f,
                insertByHash(r.qf,
                             calls[k + 1][1] \div Pow2(r.qf.rBits),
                             calls[k + 1][1] % (r.qf.rMask + 1),
                             storageGet(f, calls[k + 1][2])),
                calls, k + 1)

\* QF.double, given the enumeration of the entries of f
doubleFrom(f, e) ==
    IF e.hang THEN [qf |-> f, update |-> FALSE, hang |-> TRUE]
    ELSE replay(f,
                [qf     |-> NewWithConfig([f.config EXCEPT !.QBits = @ + 1]),
                 update |-> FALSE, hang |-> FALSE],
                e.calls, 0)

\* QF.double
double(f) == doubleFrom(f, eachHashValue(f))

\* QF.InsertWithValue after the doubling, d what double() left
insertAfterDouble(d, hv, value) ==
    IF d.hang THEN d
    ELSE insertByHash(d.qf, hash(d.qf, hv).dq, hash(d.qf, hv).dr, value)

\* QF.InsertWithValue that doubles only when entries exceeds maxEntries
insertWithValueLate(f, hv, value) ==
    IF f.maxEntries < f.entries
    THEN insertAfterDouble(double(f), hv, value)
    ELSE insertAfterDouble([qf |-> f, update |-> FALSE, hang |-> FALSE], hv, value)

\* QF.InsertWithValue that never doubles
insertWithValueUndoubled(f, hv, value) ==
    insertAfterDouble([qf |-> f, update |-> FALSE, hang |-> FALSE], hv, value)

\* QF.InsertWithValue of a key whose hash value is hv
InsertWithValue(f, hv, value) ==
    IF f.maxEntries <= f.entries
    THEN insertAfterDouble(double(f), hv, value)
    ELSE insertAfterDouble([qf |-> f, update |-> FALSE, hang |-> FALSE], hv, value)

\* QF.insertByHash of a value that the storage vector refuses: what the call
\* has written when storage.Swap panics. The occupied bit of dq is set; in
\* the easy case and in the cascade shift entries is incremented and the
\* remainder swapped into the slot before storage.Swap is reached, in the
\* update case storage.Swap is the first write after the occupied bit
insertByHashAborted(f, dq, dr) ==
    IF empty(read(f, dq))
    THEN [qf |-> [f EXCEPT !.occupied[dq] = TRUE,
                           !.entries = @ + 1,
                           !.remainders[dq] = dr],
          update |-> FALSE, hang |-> FALSE]
    ELSE \* runStart, then the slot the spot loop stops at
         LET marked == [f EXCEPT !.occupied[dq] = TRUE]
             runStart == findStart(marked, dq)
             slot == IF runStart = Hang THEN Hang
                     ELSE IF f.occupied[dq] THEN spotInRun(marked, runStart, dr, 0)
                     ELSE runStart
         IN  IF slot = Hang THEN [qf |-> marked, update |-> FALSE, hang |-> TRUE]
             ELSE IF dr = marked.remainders[slot]
             THEN [qf |-> marked, update |-> TRUE, hang |-> FALSE]
             ELSE [qf |-> [marked EXCEPT !.entries = @ + 1,
                                         !.remainders[slot] = dr],
                   update |-> FALSE, hang |-> FALSE]

\* QF.InsertWithValue of a value that the storage vector refuses: the
\* doubling, when due, is complete before insertByHash panics
InsertWithValueAborted(f, hv) ==
    IF f.maxEntries <= f.entries
    THEN IF double(f).hang THEN double(f)
         ELSE insertByHashAborted(double(f).qf, hash(double(f).qf, hv).dq,
                                  hash(double(f).qf, hv).dr)
    ELSE insertByHashAborted(f, hash(f, hv).dq, hash(f, hv).dr)

\* ------------------------------------------------------ consistency check
\* marker for a consistency error
Inconsistent == {-1}

\* checkConsistency, the walk along the run of bucket dq that starts at
\* slot: every slot of the run is claimed in usage, a slot claimed twice is
\* an error
RECURSIVE walkRun(_, _, _)
walkRun(f, slot, usage) ==
    IF slot \in usage THEN Inconsistent
    ELSE LET nx == right(f, slot)
         IN  IF ~f.continuation[nx] THEN usage \cup {slot}
             ELSE walkRun(f, nx, usage \cup {slot})

\* checkConsistency, the loop over the buckets whose occupied bit is set
RECURSIVE checkRuns(_, _, _)
checkRuns(f, i, usage) ==
    IF i >= f.size THEN usage
    ELSE IF ~f.occupied[i] THEN checkRuns(f, i + 1, usage)
    ELSE LET runStart == findStart(f, i)
             u        == IF runStart = Hang THEN Inconsistent
                         ELSE walkRun(f, runStart, usage)
         IN  IF u = Inconsistent THEN Inconsistent ELSE checkRuns(f, i + 1, u)

\* checkConsistency: TRUE when it returns no error
checkConsistency(f) ==
    /\ countEntries(f) = f.entries
    /\ LET usage == checkRuns(f, 0, {})
       IN  /\ usage # Inconsistent
           /\ Cardinality(usage) = f.entries

\* the slots of the run of bucket dq, in order, from the slot findStart
\* yields up to the last slot before one without the continuation bit
RECURSIVE runSlots(_, _, _)
runSlots(f, slot, n) ==
    LET nx == right(f, slot)
    IN  IF ~f.continuation[nx] \/ n >= f.size THEN <<slot>>
        ELSE <<slot>> \o runSlots(f, nx, n + 1)

runOf(f, dq) == runSlots(f, findStart(f, dq), 1)

\* ------------------------------------------------------- bit-packed vector
\* number of bits in a vector word (bitsPerWord, scaled down from 64); the
\* slot word of a filter is three metadata bits and a remainder, so the
\* vector word is taken twice as wide as a hash value
bitsPerWord == 2 * WordBits

\* x << n on a word: bits shifted past the top are lost, a shift by the word
\* width or more gives 0
shl(x, n) == IF n >= bitsPerWord THEN 0 ELSE (x * Pow2(n)) % Pow2(bitsPerWord)

\* x >> n on a word
shr(x, n) == IF n >= bitsPerWord THEN 0 ELSE x \div Pow2(n)

\* x | y on words, bit by bit
RECURSIVE bor(_, _, _)
bor(x, y, n) ==
    IF n = 0 THEN 0
    ELSE 2 * bor(x \div 2, y \div 2, n - 1)
         + (IF x % 2 = 1 \/ y % 2 = 1 THEN 1 ELSE 0)

\* x & y on words, bit by bit
RECURSIVE band(_, _, _)
band(x, y, n) ==
    IF n = 0 THEN 0
    ELSE 2 * band(x \div 2, y \div 2, n - 1)
         + (IF x % 2 = 1 /\ y % 2 = 1 THEN 1 ELSE 0)

\* wordsRequired without the word it adds to the quotient
wordsWithoutSpare(bits, count) == (count * bits) \div bitsPerWord

\* the number of words of a vector that rounds up and adds a word
wordsRoundedUp(bits, count) ==
    ((count * bits + bitsPerWord - 1) \div bitsPerWord) + 1

\* wordsRequired
wordsRequired(bits, count) == ((count * bits) \div bitsPerWord) + 1

\* genForbiddenMask: ^((1 << bits) - 1), (1 << bits) - 1 wraps to all ones
\* when bits is the word width
genForbiddenMask(bits) ==
    (Pow2(bitsPerWord) - 1)
        - ((shl(1, bits) + Pow2(bitsPerWord) - 1) % Pow2(bitsPerWord))

\* BitPackedVectorAllocate
BitPackedVectorAllocate(bits, size) ==
    [forbiddenMask |-> genForbiddenMask(bits),
     bits          |-> bits,
     space         |-> [k \in 0 .. (wordsRequired(bits, size) - 1) |-> 0],
     size          |-> size]

\* packed.Set without its write of the second word
setFirstWordOnly(space, word, bits, getbits, val) == space

\* packed.Set, the write of the second word when element ix straddles
setSecondWord(space, word, bits, getbits, val) ==
    IF getbits < bits
    THEN [space EXCEPT ![word + 1] =
              bor(shl(shr(space[word + 1], bits - getbits), bits - getbits),
                  shr(val, getbits), bitsPerWord)]
    ELSE space

\* packed.Set that stores val << bitoff as the first word without keeping
\* the bits of the word outside the element
setWordsOverwriting(space, word, bitoff, getbits, bits, val) ==
    setSecondWord([space EXCEPT ![word] = shl(val, bitoff)], word, bits, getbits, val)

\* packed.Set from the zeroing on: bitoff and getbits as computed from ix
setWords(space, word, bitoff, getbits, bits, val) ==
    setSecondWord(
        [space EXCEPT ![word] =
            bor(bor(shl(shr(space[word], bitoff + getbits), bitoff + getbits),
                    shr(shl(space[word], bitsPerWord - bitoff), bitsPerWord - bitoff),
                    bitsPerWord),
                shl(val, bitoff), bitsPerWord)],
        word, bits, getbits, val)

\* min(64 - bitoff, bits): the bits of the element held by its first word
getbitsOf(bitoff, bits) ==
    IF bitsPerWord - bitoff > bits THEN bits ELSE bitsPerWord - bitoff

\* packed.Set: panic on a value with a forbidden bit, a word index outside
\* the space is a run-time panic too
packedSet(p, ix, val) ==
    IF band(val, p.forbiddenMask, bitsPerWord) # 0 THEN [p |-> p, panic |-> TRUE]
    ELSE IF (ix * p.bits) \div bitsPerWord \notin DOMAIN p.space
            \/ (getbitsOf((ix * p.bits) % bitsPerWord, p.bits) < p.bits
                /\ ((ix * p.bits) \div bitsPerWord) + 1 \notin DOMAIN p.space)
    THEN [p |-> p, panic |-> TRUE]
    ELSE [p |-> [p EXCEPT !.space =
                     setWords(p.space, (ix * p.bits) \div bitsPerWord,
                              (ix * p.bits) % bitsPerWord,
                              getbitsOf((ix * p.bits) % bitsPerWord, p.bits),
                              p.bits, val)],
          panic |-> FALSE]

\* getValFromPackedIx from the shifts on: w0 and w1 are the words read
valFromWords(w0, w1, bitoff, getbits, bits) ==
    IF getbits < bits
    THEN bor(shr(shl(w0, bitsPerWord - getbits - bitoff), bitsPerWord - getbits),
             shl(shr(shl(w1, bitsPerWord - (bits - getbits)),
                     bitsPerWord - (bits - getbits)),
                 getbits),
             bitsPerWord)
    ELSE shr(shl(w0, bitsPerWord - getbits - bitoff), bitsPerWord - getbits)

\* getValFromPackedIx with the read callback reading from space: err when a
\* word needed lies outside space
getValFromPackedIx(ix, bits, space) ==
    IF (ix * bits) \div bitsPerWord \notin DOMAIN space
       \/ (getbitsOf((ix * bits) % bitsPerWord, bits) < bits
           /\ ((ix * bits) \div bitsPerWord) + 1 \notin DOMAIN space)
    THEN [val |-> 0, err |-> TRUE]
    ELSE [val |-> valFromWords(
                      space[(ix * bits) \div bitsPerWord],
                      IF getbitsOf((ix * bits) % bitsPerWord, bits) < bits
                      THEN space[((ix * bits) \div bitsPerWord) + 1] ELSE 0,
                      (ix * bits) % bitsPerWord,
                      getbitsOf((ix * bits) % bitsPerWord, bits), bits),
          err |-> FALSE]

\* packed.Get: the slice p.space[off : off+cnt] outside the space is a
\* run-time panic
packedGet(p, ix) ==
    [val   |-> getValFromPackedIx(ix, p.bits, p.space).val,
     panic |-> getValFromPackedIx(ix, p.bits, p.space).err]

\* the vector behind the Vector interface: kind tells the implementation
packedVector(bits, size) ==
    [kind          |-> "packed",
     forbiddenMask |-> BitPackedVectorAllocate(bits, size).forbiddenMask,
     bits          |-> bits,
     space         |-> BitPackedVectorAllocate(bits, size).space,
     size          |-> size]

\* UnpackedVectorAllocate: one word for every element, bits is not kept
UnpackedVectorAllocate(bits, size) ==
    [kind |-> "unpacked", space |-> [k \in 0 .. (size - 1) |-> 0]]

\* unpacked.Set: the word is stored as it is, an index outside the slice is a
\* run-time panic
unpackedSet(v, ix, val) ==
    IF ix \notin DOMAIN v.space THEN [p |-> v, panic |-> TRUE]
    ELSE [p |-> [v EXCEPT !.space[ix] = val], panic |-> FALSE]

\* unpacked.Get
unpackedGet(v, ix) ==
    IF ix \notin DOMAIN v.space THEN [val |-> 0, panic |-> TRUE]
    ELSE [val |-> v.space[ix], panic |-> FALSE]

\* Vector.Set, dispatched on the implementation
vectorSet(v, ix, val) ==
    IF v.kind = "packed" THEN packedSet(v, ix, val) ELSE unpackedSet(v, ix, val)

\* Vector.Get, dispatched on the implementation
vectorGet(v, ix) ==
    IF v.kind = "packed" THEN packedGet(v, ix) ELSE unpackedGet(v, ix)

\* ------------------------------------------------------- Filter, streams
\* version of the serialized quotient filter
qfVersion == 4

\* version of the serialized bit-packed vector
qfBitPackedVectorVersion == 8

\* the word of slot i in the slot vector of a Filter: the metadata flags in
\* the three low bits (occupied, continuation, shifted), the remainder above
slotWord(f, i) ==
    (f.remainders[i] * 8)
        + (IF f.occupied[i] THEN 1 ELSE 0)
        + (IF f.continuation[i] THEN 2 ELSE 0)
        + (IF f.shifted[i] THEN 4 ELSE 0)

\* the allocation function of a Filter: c.BitPacked chooses the vector
allocfn(c, bits, size) ==
    IF c.BitPacked THEN packedVector(bits, size)
    ELSE UnpackedVectorAllocate(bits, size)

\* Vector.Set of vals[i] on every element from i on
RECURSIVE setAll(_, _, _)
setAll(v, vals, i) ==
    IF i \notin DOMAIN vals THEN v
    ELSE setAll(vectorSet(v, i, vals[i]).p, vals, i + 1)

\* the Filter that holds what the quotient filter f holds: one vector of
\* slot words of width 3 + rBits and, with external storage, a vector of
\* values of width BitsOfStoragePerEntry
Filter(f) ==
    [entries    |-> f.entries,
     qBits      |-> f.qBits,
     size       |-> f.size,
     rBits      |-> f.rBits,
     rMask      |-> f.rMask,
     maxEntries |-> f.maxEntries,
     filter     |-> setAll(allocfn(f.config, 3 + f.rBits, f.size),
                           [i \in 0 .. (f.size - 1) |-> slotWord(f, i)], 0),
     storage    |-> IF f.storage = NoStorage THEN [kind |-> "none"]
                    ELSE setAll(allocfn(f.config, f.config.BitsOfStoragePerEntry, f.size),
                                f.storage, 0),
     config     |-> f.config]

\* writeUintSlice: the length, then the words
writeUintSlice(space) ==
    <<Cardinality(DOMAIN space)>>
        \o [k \in 1 .. Cardinality(DOMAIN space) |-> space[k - 1]]

\* packed.WriteTo / unpacked.WriteTo
vectorWriteTo(v) ==
    IF v.kind = "packed"
    THEN <<qfBitPackedVectorVersion, v.bits, v.size>> \o writeUintSlice(v.space)
    ELSE writeUintSlice(v.space)

\* Filter.WriteTo: the header, the slot vector, the storage vector if any
WriteTo(F) ==
    <<qfVersion, F.entries, F.qBits, F.config.BitsOfStoragePerEntry,
      IF F.config.BitPacked THEN 1 ELSE 0>>
        \o vectorWriteTo(F.filter)
        \o (IF F.storage.kind = "none" THEN << >> ELSE vectorWriteTo(F.storage))

\* the words of stream s from position k on
from(s, k) == SubSeq(s, k, Len(s))

\* readUintSlice on the words s left in the stream. On a little-endian host
\* the data is taken by one Read call: it fills what the stream still holds
\* and reports an error only when nothing is left; on a big-endian host
\* binary.Read fails unless every word is there
readUintSlice(s, le) ==
    IF Len(s) = 0
    THEN [space |-> << >>, rest |-> s, err |-> TRUE]
    ELSE IF le
    THEN [space |-> [k \in 0 .. (s[1] - 1) |-> IF k + 2 <= Len(s) THEN s[k + 2] ELSE 0],
          rest  |-> from(s, 2 + (IF s[1] < Len(s) - 1 THEN s[1] ELSE Len(s) - 1)),
          err   |-> (s[1] > 0 /\ Len(s) = 1)]
    ELSE IF s[1] > Len(s) - 1
    THEN [space |-> [k \in 0 .. (s[1] - 1) |-> 0], rest |-> << >>, err |-> TRUE]
    ELSE [space |-> [k \in 0 .. (s[1] - 1) |-> s[k + 2]],
          rest  |-> from(s, 2 + s[1]),
          err   |-> FALSE]

\* packed.ReadFrom, the part after the header has been accepted
packedReadSpace(p, s, r) ==
    [v    |-> [kind          |-> "packed",
               forbiddenMask |-> genForbiddenMask(s[2]),
               bits          |-> s[2],
               space         |-> r.space,
               size          |-> s[3]],
     rest |-> r.rest,
     err  |-> r.err]

\* packed.ReadFrom
packedReadFrom(p, s, le) ==
    IF Len(s) < 3 THEN [v |-> p, rest |-> << >>, err |-> TRUE]
    ELSE IF qfBitPackedVectorVersion # s[1] THEN [v |-> p, rest |-> from(s, 4), err |-> TRUE]
    ELSE packedReadSpace(p, s, readUintSlice(from(s, 4), le))

\* unpacked.ReadFrom, the assignment of what readUintSlice returned
unpackedReadSpace(r) ==
    [v |-> [kind |-> "unpacked", space |-> r.space], rest |-> r.rest, err |-> r.err]

\* unpacked.ReadFrom
unpackedReadFrom(v, s, le) == unpackedReadSpace(readUintSlice(s, le))

\* Vector.ReadFrom, dispatched on the implementation of the receiver
vectorReadFrom(v, s, le) ==
    IF v.kind = "packed" THEN packedReadFrom(v, s, le) ELSE unpackedReadFrom(v, s, le)

\* Filter.ReadFrom, the storage vector: F has the slot vector read, r is
\* what reading it returned
readStorage(F, s, r, le) ==
    [qf  |-> [F EXCEPT !.config.BitsOfStoragePerEntry = s[4], !.storage = r.v],
     err |-> r.err]

\* Filter.ReadFrom after the slot vector was read: r is what reading it
\* returned; the storage vector is read when the header has StorageBits > 0,
\* into qf.storage or, when that is nil, into a vector allocated for it
readFilter(F, s, r, le) ==
    IF r.err THEN [qf |-> [F EXCEPT !.filter = r.v], err |-> TRUE]
    ELSE IF s[4] > 0
    THEN readStorage([F EXCEPT !.filter = r.v], s,
                     vectorReadFrom(IF F.storage.kind = "none"
                                    THEN allocfn(F.config, 0, 0) ELSE F.storage,
                                    r.rest, le),
                     le)
    ELSE [qf |-> [F EXCEPT !.filter = r.v], err |-> FALSE]

\* Filter.ReadFrom after the header was accepted: entries and the
\* parameters of initForQuotientBits are taken from the header
readHeader(F, s, p, le) ==
    readFilter([F EXCEPT !.entries = s[2], !.qBits = p.qBits, !.size = p.size,
                         !.rBits = p.rBits, !.rMask = p.rMask,
                         !.maxEntries = p.maxEntries],
               s, vectorReadFrom(F.filter, from(s, 6), le), le)

\* Filter.ReadFrom without its test of the Version
ReadFromAnyVersion(F, s, le) ==
    IF Len(s) < 5 THEN [qf |-> F, err |-> TRUE]
    ELSE readHeader(F, s, initForQuotientBits(s[3]), le)

\* Filter.ReadFrom on stream s
ReadFrom(F, s, le) ==
    IF Len(s) < 5 THEN [qf |-> F, err |-> TRUE]
    ELSE IF s[1] # qfVersion THEN [qf |-> F, err |-> TRUE]
    ELSE readHeader(F, s, initForQuotientBits(s[3]), le)

\* ------------------------------------------------- lookup through readers
\* initPackedDiskReader on the words s left in the file: the reader sees
\* the file from the first data word on; the seek past the data succeeds
\* wherever the file ends
initPackedDiskReader(s) ==
    IF Len(s) < 3 THEN [r |-> [kind |-> "none"], rest |-> << >>, err |-> TRUE]
    ELSE IF qfBitPackedVectorVersion # s[1]
    THEN [r |-> [kind |-> "none"], rest |-> << >>, err |-> TRUE]
    ELSE IF Len(s) < 4 THEN [r |-> [kind |-> "none"], rest |-> << >>, err |-> TRUE]
    ELSE [r    |-> [kind  |-> "packedDisk", bits |-> s[2], size |-> s[3],
                    space |-> [k \in 0 .. (Len(s) - 5) |-> s[k + 5]]],
          rest |-> from(s, 5 + s[4]),
          err  |-> FALSE]

\* initUnpackedDiskReader on the words s left in the file
initUnpackedDiskReader(s) ==
    IF Len(s) < 1 THEN [r |-> [kind |-> "none"], rest |-> << >>, err |-> TRUE]
    ELSE [r    |-> [kind  |-> "unpackedDisk", size |-> s[1],
                    space |-> [k \in 0 .. (Len(s) - 2) |-> s[k + 2]]],
          rest |-> from(s, 2 + s[1]),
          err  |-> FALSE]

\* the read function a lookup is given: Vector.Get of a vector in memory,
\* packedDiskReader.Read or unpackedDiskReader.Read of a reader on a file;
\* err is a panic of the lookup. On a big-endian host packedDiskReader.Read
\* slices its buffer beyond its end
readFn(v, ix, le) ==
    IF v.kind = "packed"
    THEN [val |-> packedGet(v, ix).val, err |-> packedGet(v, ix).panic]
    ELSE IF v.kind = "unpacked"
    THEN [val |-> unpackedGet(v, ix).val, err |-> unpackedGet(v, ix).panic]
    ELSE IF v.kind = "packedDisk"
    THEN (IF le THEN getValFromPackedIx(ix, v.bits, v.space)
          ELSE [val |-> 0, err |-> TRUE])
    ELSE [val |-> unpackedGet(v, ix).val, err |-> unpackedGet(v, ix).panic]

\* what the slots read through filterFn and storageFn hold: the fields of
\* every slot word, and the slots whose read fails
slots(fv, sv, size, le) ==
    [size         |-> size,
     occupied     |-> [i \in 0 .. (size - 1) |-> readFn(fv, i, le).val % 2 = 1],
     continuation |-> [i \in 0 .. (size - 1) |-> (readFn(fv, i, le).val \div 2) % 2 = 1],
     shifted      |-> [i \in 0 .. (size - 1) |-> (readFn(fv, i, le).val \div 4) % 2 = 1],
     remainders   |-> [i \in 0 .. (size - 1) |-> readFn(fv, i, le).val \div 8],
     storage      |-> IF sv.kind = "none" THEN NoStorage
                      ELSE [i \in 0 .. (size - 1) |-> readFn(sv, i, le).val],
     bad          |-> {i \in 0 .. (size - 1) : readFn(fv, i, le).err},
     sbad         |-> IF sv.kind = "none" THEN {}
                      ELSE {i \in 0 .. (size - 1) : readFn(sv, i, le).err}]

\* result of a scan that read a slot whose read panics
Panicked == -2

\* findStart(dq, size, get), second loop
RECURSIVE findRight(_, _, _, _, _)
findRight(d, dq, runs, complete, hops) ==
    IF ~(runs > complete) THEN dq
    ELSE IF hops > 2 * d.size THEN Hang
    ELSE IF right(d, dq) \in d.bad THEN Panicked
    ELSE findRight(d, right(d, dq), runs,
                   IF ~d.continuation[right(d, dq)] THEN complete + 1 ELSE complete,
                   hops + 1)

\* findStart(dq, size, get), first loop
RECURSIVE findLeft(_, _, _, _, _, _)
findLeft(d, dq, i, runs, complete, hops) ==
    IF i \in d.bad THEN Panicked
    ELSE IF ~d.shifted[i]
    THEN findRight(d, dq, runs,
                   IF ~d.continuation[i] THEN complete + 1 ELSE complete, 0)
    ELSE IF hops > 2 * d.size THEN Hang
    ELSE findLeft(d, dq, left(d, i),
                  IF d.occupied[i] THEN runs + 1 ELSE runs,
                  IF ~d.continuation[i] THEN complete + 1 ELSE complete,
                  hops + 1)

\* lookupByHash(dq, dr, size, filterFn, storageFn), the walk along the run
RECURSIVE walkRunFrom(_, _, _, _)
walkRunFrom(d, slot, dr, hops) ==
    IF slot = Hang THEN [found |-> FALSE, value |-> 0, hang |-> TRUE, panic |-> FALSE]
    ELSE IF slot = Panicked \/ slot \in d.bad
    THEN [found |-> FALSE, value |-> 0, hang |-> FALSE, panic |-> TRUE]
    ELSE IF d.remainders[slot] = dr
    THEN [found |-> slot \notin d.sbad, value |-> IF slot \in d.sbad THEN 0 ELSE storageGet(d, slot),
          hang |-> FALSE, panic |-> slot \in d.sbad]
    ELSE IF d.remainders[slot] > dr
    THEN [found |-> FALSE, value |-> 0, hang |-> FALSE, panic |-> FALSE]
    ELSE IF hops > 2 * d.size
    THEN [found |-> FALSE, value |-> 0, hang |-> TRUE, panic |-> FALSE]
    ELSE IF right(d, slot) \in d.bad
    THEN [found |-> FALSE, value |-> 0, hang |-> FALSE, panic |-> TRUE]
    ELSE IF ~d.continuation[right(d, slot)]
    THEN [found |-> FALSE, value |-> 0, hang |-> FALSE, panic |-> FALSE]
    ELSE walkRunFrom(d, right(d, slot), dr, hops + 1)

\* lookupByHash(dq, dr, size, filterFn, storageFn)
lookupThrough(d, dq, dr) ==
    IF dq \in d.bad THEN [found |-> FALSE, value |-> 0, hang |-> FALSE, panic |-> TRUE]
    ELSE IF ~d.occupied[dq]
    THEN [found |-> FALSE, value |-> 0, hang |-> FALSE, panic |-> FALSE]
    ELSE walkRunFrom(d, findLeft(d, dq, dq, 1, 0, 0), dr, 0)

\* hash(hashfn, key, rBits, rMask) of a key whose hash value is hv
hashOf(hv, rBits, rMask) == [dq |-> hv \div Pow2(rBits), dr |-> hv % (rMask + 1)]

\* Filter.Lookup of a key whose hash value is hv
FilterLookup(F, hv, le) ==
    lookupThrough(slots(F.filter, F.storage, F.size, le),
                  hashOf(hv, F.rBits, F.rMask).dq, hashOf(hv, F.rBits, F.rMask).dr)

\* OpenReadOnlyFromPath, the storage reader: D has the filter reader, r is
\* what its initialisation returned
openStorage(D, s, r) ==
    IF r.err THEN [disk |-> [f |-> "none"], err |-> TRUE]
    ELSE IF s[4] > 0 /\ (IF s[5] # 0 THEN initPackedDiskReader(r.rest).err
                         ELSE initUnpackedDiskReader(r.rest).err)
    THEN [disk |-> [f |-> "none"], err |-> TRUE]
    ELSE [disk |-> [D EXCEPT !.filterRead = r.r,
                             !.storageRead =
                                 IF s[4] > 0
                                 THEN (IF s[5] # 0 THEN initPackedDiskReader(r.rest).r
                                       ELSE initUnpackedDiskReader(r.rest).r)
                                 ELSE [kind |-> "none"]],
          err  |-> FALSE]

\* OpenReadOnlyFromPath after os.Open, on the words s of the file: the
\* header is taken as it is, ext.f is left nil
openHeader(s, p) ==
    openStorage([entries     |-> s[2],
                 size        |-> p.size,
                 rBits       |-> p.rBits,
                 rMask       |-> p.rMask,
                 f           |-> "nil",
                 filterRead  |-> [kind |-> "none"],
                 storageRead |-> [kind |-> "none"],
                 storageBits |-> s[4]],
                s,
                IF s[5] # 0 THEN initPackedDiskReader(from(s, 6))
                ELSE initUnpackedDiskReader(from(s, 6)))

\* no Disk
NoDisk == [f |-> "none"]

\* OpenReadOnlyFromPath
OpenReadOnlyFromPath(s) ==
    IF Len(s) < 5 THEN [disk |-> NoDisk, err |-> TRUE]
    ELSE openHeader(s, initForQuotientBits(s[3]))

\* Disk.Lookup of a key whose murmurhash64 value is hv
DiskLookup(D, hv, le) ==
    lookupThrough(slots(D.filterRead, D.storageRead, D.size, le),
                  hashOf(hv, D.rBits, D.rMask).dq, hashOf(hv, D.rBits, D.rMask).dr)

\* -------------------------------------------------------------------- state
\* qf:       the filter (QF)
\* inserted: for every hash value handed to insert so far, the value of the
\*           latest insert of it
\* last:     the latest call: its arguments (hash value of the key, value),
\*           what it returned (update) and whether it doubled the table first
\* vec:      a vector on its own (Vector)
\* file:     the words WriteTo wrote (a stream or a file), << >> before
\* rcv:      the Filter ReadFrom was called on: what it was before the call,
\*           what it is after it, the error returned, the reading host
\* disk:     the Disk OpenReadOnlyFromPath returned, its error, the state of
\*           the file descriptor os.Open acquired, the reading host
\* readers:  the offset of the file OpenReadOnlyFromPath opened and, for each
\*           of two goroutines calling Disk.Lookup, where it is in the call
VARIABLES qf, inserted, last, vec, file, rcv, disk, readers

vars == <<qf, inserted, last, vec, file, rcv, disk, readers>>

\* ReadFrom was not called
NoReceiver == [state |-> "none"]

\* OpenReadOnlyFromPath was not called
NotOpened == [state |-> "none"]

\* no Disk.Lookup was called: the file offset is where the last Seek of
\* OpenReadOnlyFromPath leaves it, past the data of the vectors
NoReaders ==
    [offset |-> [v |-> "end", k |-> 0],
     r      |-> [i \in 1 .. 2 |-> [pc |-> "idle"]]]

\* nothing written, read or opened
NoIO == file = << >> /\ rcv = NoReceiver /\ disk = NotOpened /\ readers = NoReaders

\* no vector allocated
NoVector == [kind |-> "none"]

\* the payload values a filter with c.BitsOfStoragePerEntry = b accepts
Values(b) == 0 .. (Pow2(b) - 1)

Init ==
    /\ \E q \in 1 .. MaxInitQBits, b \in {0, StorageBits} :
          qf = NewWithConfig([QBits |-> q, BitsOfStoragePerEntry |-> b])
    /\ inserted = << >>
    /\ last = [op |-> "New", hv |-> 0, value |-> 0, update |-> FALSE, doubled |-> FALSE]
    /\ vec = NoVector
    /\ NoIO

\* a call of InsertWithValue may grow the table up to MaxQBits quotient bits
\* (at least one remainder bit is kept)
MayInsert(hv) ==
    /\ \/ hv \in DOMAIN inserted
       \/ Cardinality(DOMAIN inserted) <
              (IF qf.storage = NoStorage THEN MaxLen ELSE MaxLenStorage)
    /\ (qf.maxEntries <= qf.entries) => (qf.qBits < MaxQBits /\ qf.qBits + 1 < WordBits)

\* QF.InsertWithValue(key, value), hv the hash value of the key
DoInsertWithValue(hv, value) ==
    /\ MayInsert(hv)
    /\ \E r \in {InsertWithValue(qf, hv, value)} :
          /\ ~r.hang
          /\ qf' = r.qf
          /\ last' = [op |-> "InsertWithValue", hv |-> hv, value |-> value,
                      update |-> r.update,
                      doubled |-> (qf.maxEntries <= qf.entries)]
    /\ inserted' = [h \in (DOMAIN inserted) \cup {hv} |->
                       IF h = hv THEN value ELSE inserted[h]]
    /\ UNCHANGED <<vec, file, rcv, disk, readers>>

Next ==
    \E hv \in HashValues, value \in Values(qf.config.BitsOfStoragePerEntry) :
        DoInsertWithValue(hv, value)

Spec == Init /\ [][Next]_vars

TypeOK ==
    /\ qf.size = Pow2(qf.qBits)
    /\ DOMAIN inserted \subseteq HashValues

\* ----------------------------------------------------- a vector on its own
\* the values stored in a vector of width w: the VecEdge lowest and the
\* VecEdge highest values of the width and the two alternating bit patterns
TestValues(w) ==
    {v \in 0 .. (Pow2(w) - 1) :
        \/ v < VecEdge
        \/ v >= Pow2(w) - VecEdge
        \/ v = (Pow2(w + (w % 2)) - 1) \div 3
        \/ v = (Pow2(w) - 1) - ((Pow2(w + (w % 2)) - 1) \div 3)}

\* a vector of every width and of 1 .. MaxVecSize elements, bit-packed or not
InitVec ==
    /\ qf = NewWithConfig([QBits |-> 1, BitsOfStoragePerEntry |-> 0])
    /\ inserted = << >>
    /\ \E w \in 1 .. bitsPerWord, n \in 1 .. MaxVecSize :
          /\ vec \in {packedVector(w, n), UnpackedVectorAllocate(w, n)}
          /\ last = [op |-> "Allocate", bits |-> w, size |-> n]
    /\ NoIO

\* Vector.Set(ix, val) with val < 2^bits
DoSet(ix, val) ==
    /\ \E r \in {vectorSet(vec, ix, val)} :
          /\ ~r.panic
          /\ vec' = r.p
    /\ last' = [op |-> "Set", bits |-> last.bits, size |-> last.size,
                ix |-> ix, val |-> val]
    /\ UNCHANGED <<qf, inserted, file, rcv, disk, readers>>

NextVec ==
    \E ix \in 0 .. (last.size - 1), val \in TestValues(last.bits) : DoSet(ix, val)

SpecVec == InitVec /\ [][NextVec]_vars

\* ------------------------------------------------- writing and reading
\* the configurations a Filter is constructed with: every choice of
\* quotient bits, external storage and vector representation with the
\* default hash function, and one with another hash function
Configs ==
    {[QBits |-> q, BitsOfStoragePerEntry |-> b, BitPacked |-> packed,
      HashFn |-> "murmurhash64"] :
        q \in 1 .. MaxInitQBits, b \in {0, StorageBits}, packed \in BOOLEAN}
    \cup {[QBits |-> 1, BitsOfStoragePerEntry |-> 0, BitPacked |-> TRUE,
           HashFn |-> "fnvhash"]}

InitIO ==
    /\ \E c \in Configs : qf = NewWithConfig(c)
    /\ inserted = << >>
    /\ last = [op |-> "New", panic |-> FALSE]
    /\ vec = NoVector
    /\ NoIO

\* the values InsertWithValue is called with: those of the width and the
\* first one wider than the width
ValuesIO(b) == IF b = 0 THEN {0} ELSE 0 .. Pow2(b)

\* Filter.InsertWithValue(key, value), hv the hash value of the key under the
\* hash function of the filter: Set on the storage vector panics or not as
\* the vector decides; a panic leaves the filter as insertByHash had written
\* it by then, and nothing more is done with it
DoInsertWithValueIO(hv, value) ==
    /\ file = << >> /\ ~last.panic
    /\ hv \in DOMAIN inserted \/ Cardinality(DOMAIN inserted) < MaxLenIO
    /\ (qf.maxEntries <= qf.entries) => (qf.qBits < MaxQBits /\ qf.qBits + 1 < WordBits)
    /\ IF qf.storage # NoStorage
          /\ vectorSet(allocfn(qf.config, qf.config.BitsOfStoragePerEntry, qf.size),
                       0, value).panic
       THEN /\ \E r \in {InsertWithValueAborted(qf, hv)} :
                  /\ ~r.hang
                  /\ qf' = r.qf
            /\ last' = [op |-> "InsertWithValue", value |-> value, panic |-> TRUE]
            /\ UNCHANGED inserted
       ELSE /\ \E r \in {InsertWithValue(qf, hv, value)} :
                  /\ ~r.hang
                  /\ qf' = r.qf
            /\ last' = [op |-> "InsertWithValue", value |-> value, panic |-> FALSE]
            /\ inserted' = [h \in (DOMAIN inserted) \cup {hv} |->
                               IF h = hv THEN value ELSE inserted[h]]
    /\ UNCHANGED <<vec, file, rcv, disk, readers>>

\* Filter.WriteTo(stream)
DoWriteTo ==
    /\ file = << >> /\ ~last.panic
    /\ file' = WriteTo(Filter(qf))
    /\ last' = [op |-> "WriteTo", panic |-> FALSE]
    /\ UNCHANGED <<qf, inserted, vec, rcv, disk, readers>>

\* the header of the file comes to hold another Version
DoOtherVersion(v) ==
    /\ last.op = "WriteTo"
    /\ file' = [file EXCEPT ![1] = v]
    /\ last' = [op |-> "OtherVersion", panic |-> FALSE]
    /\ UNCHANGED <<qf, inserted, vec, rcv, disk, readers>>

\* the file loses its last n words
DoTruncate(n) ==
    /\ last.op = "WriteTo"
    /\ file' = SubSeq(file, 1, Len(file) - n)
    /\ last' = [op |-> "Truncate", panic |-> FALSE]
    /\ UNCHANGED <<qf, inserted, vec, rcv, disk, readers>>

\* Filter.ReadFrom(stream) on a Filter freshly constructed with c, on a host
\* that is little-endian (le) or not (a big-endian host with a receiver of
\* the configuration of the writer)
DoReadFrom(c, le) ==
    /\ file # << >> /\ rcv = NoReceiver /\ disk = NotOpened
    /\ le \/ (c.BitPacked = qf.config.BitPacked
              /\ c.BitsOfStoragePerEntry = qf.config.BitsOfStoragePerEntry)
    /\ \E r \in {ReadFrom(Filter(NewWithConfig(c)), file, le)} :
          rcv' = [state  |-> "read",
                  before |-> Filter(NewWithConfig(c)),
                  qf     |-> r.qf,
                  err    |-> r.err,
                  isLittleEndian |-> le]
    /\ last' = [op |-> "ReadFrom", panic |-> FALSE]
    /\ UNCHANGED <<qf, inserted, vec, file, disk, readers>>

\* OpenReadOnlyFromPath(path) on a host that is little-endian (le) or not:
\* os.Open acquires a file descriptor
DoOpen(le) ==
    /\ file # << >> /\ rcv = NoReceiver /\ disk = NotOpened
    /\ \E r \in {OpenReadOnlyFromPath(file)} :
          disk' = [state |-> "opened",
                   disk  |-> r.disk,
                   err   |-> r.err,
                   fd    |-> "open",
                   isLittleEndian |-> le]
    /\ last' = [op |-> "Open", panic |-> FALSE]
    /\ UNCHANGED <<qf, inserted, vec, file, rcv, readers>>

\* Disk.Close: the file is closed when ext.f is not nil
DoClose ==
    /\ disk.state = "opened" /\ ~disk.err
    /\ disk' = [disk EXCEPT !.state = "closed",
                            !.fd = IF disk.disk.f # "nil" THEN "closed" ELSE @]
    /\ last' = [op |-> "Close", panic |-> FALSE]
    /\ UNCHANGED <<qf, inserted, vec, file, rcv, readers>>

\* the configurations a receiving Filter is constructed with
ReceiverConfigs ==
    {[QBits |-> 1, BitsOfStoragePerEntry |-> b, BitPacked |-> packed,
      HashFn |-> qf.config.HashFn] : b \in {0, StorageBits}, packed \in BOOLEAN}

NextIO ==
    \/ \E hv \in HashValues, value \in ValuesIO(qf.config.BitsOfStoragePerEntry) :
          DoInsertWithValueIO(hv, value)
    \/ DoWriteTo
    \/ \E v \in {qfVersion + 1} : DoOtherVersion(v)
    \/ \E n \in 1 .. MaxCut : DoTruncate(n)
    \/ \E c \in ReceiverConfigs, le \in BOOLEAN : DoReadFrom(c, le)
    \/ \E le \in BOOLEAN : DoOpen(le)
    \/ DoClose

SpecIO == InitIO /\ [][NextIO]_vars

\* ------------------------------------------- two readers of one Disk
\* the hash values below MaxReaderKeys are inserted, those up to it looked up
MaxReaderKeys == 3

\* the words of the file the two readers of D read from: word k of the
\* data of the slot vector (v = "f") and of the storage vector (v = "s")
content(D) ==
    [p \in {[v |-> "f", k |-> k] : k \in DOMAIN D.filterRead.space}
           \cup (IF D.storageRead.kind = "none" THEN {}
                 ELSE {[v |-> "s", k |-> k] : k \in DOMAIN D.storageRead.space}) |->
        IF p.v = "f" THEN D.filterRead.space[p.k] ELSE D.storageRead.space[p.k]]

\* D as a goroutine knows it from the words got it has read so far: a Read
\* of any other word has not returned yet
viewOf(D, got) ==
    [D EXCEPT !.filterRead.space =
                  [k \in {p.k : p \in {x \in DOMAIN got : x.v = "f"}} |->
                      got[[v |-> "f", k |-> k]]],
              !.storageRead =
                  IF @.kind = "none" THEN @
                  ELSE [@ EXCEPT !.space =
                           [k \in {p.k : p \in {x \in DOMAIN got : x.v = "s"}} |->
                               got[[v |-> "s", k |-> k]]]]]

\* the words Disk.Lookup of hash value hv reads through filterRead.Read and
\* storageRead.Read: those it cannot do without
needed(D, hv, le) ==
    {p \in DOMAIN content(D) :
        DiskLookup(viewOf(D, [x \in (DOMAIN content(D)) \ {p} |-> content(D)[x]]),
                   hv, le).panic}

\* File.ReadAt moving the file offset to the word it reads, as a Seek
\* followed by a Read does
seekThenRead(off, want) == [offset |-> want, at |-> off]

\* File.ReadAt(want) on a file whose offset is off: the word at want is
\* read and the offset stays where it is
ReadAt(off, want) == [offset |-> off, at |-> want]

\* goroutine i calls Disk.Lookup with a key whose hash value is hv; need
\* are the words this call is going to read
DoLookup(i, hv) ==
    /\ disk.state = "opened" /\ ~disk.err /\ disk.isLittleEndian
    /\ readers.r[i].pc = "idle"
    /\ readers' = [readers EXCEPT !.r[i] =
                      [pc |-> "run", hv |-> hv, got |-> [x \in {} |-> 0],
                       need |-> needed(disk.disk, hv, disk.isLittleEndian)]]
    /\ UNCHANGED <<qf, inserted, last, vec, file, rcv, disk>>

\* packedDiskReader.Read / unpackedDiskReader.Read of goroutine i, the call
\* of ReadAt for a word its lookup needs
DoReadAt(i) ==
    /\ readers.r[i].pc = "run"
    /\ \E p \in readers.r[i].need \ DOMAIN readers.r[i].got :
          readers' = [readers EXCEPT !.offset = ReadAt(readers.offset, p).offset,
                                     !.r[i] = [@ EXCEPT !.pc = "read"] @@ [want |-> p]]
    /\ UNCHANGED <<qf, inserted, last, vec, file, rcv, disk>>

\* packedDiskReader.Read / unpackedDiskReader.Read of goroutine i, ReadAt
\* returns the word it read; reading where the file has no data is an
\* error, and Disk.Lookup panics
DoReadReturn(i) ==
    /\ readers.r[i].pc = "read"
    /\ \E at \in {ReadAt(readers.offset, readers.r[i].want).at} :
          readers' = [readers EXCEPT !.r[i] =
              IF at \in DOMAIN content(disk.disk)
              THEN [pc |-> "run", hv |-> @.hv, need |-> @.need,
                    got |-> [x \in (DOMAIN @.got) \cup {@.want} |->
                                IF x = @.want THEN content(disk.disk)[at]
                                ELSE @.got[x]]]
              ELSE [pc |-> "panicked", hv |-> @.hv]]
    /\ UNCHANGED <<qf, inserted, last, vec, file, rcv, disk>>

\* Disk.Lookup of goroutine i returns what lookupByHash made of the words read
DoLookupReturn(i) ==
    /\ readers.r[i].pc = "run"
    /\ readers.r[i].need \subseteq DOMAIN readers.r[i].got
    /\ readers' = [readers EXCEPT !.r[i] =
                      [pc |-> "done", hv |-> @.hv, got |-> @.got,
                       result |-> DiskLookup(viewOf(disk.disk, @.got), @.hv,
                                             disk.isLittleEndian)]]
    /\ UNCHANGED <<qf, inserted, last, vec, file, rcv, disk>>

NextReaders ==
    \/ \E hv \in 0 .. (MaxReaderKeys - 1), value \in Values(qf.config.BitsOfStoragePerEntry) :
          DoInsertWithValueIO(hv, value)
    \/ DoWriteTo
    \/ DoOpen(TRUE)
    \/ \E i \in 1 .. 2, hv \in 0 .. MaxReaderKeys : DoLookup(i, hv)
    \/ \E i \in 1 .. 2 : DoReadAt(i)
    \/ \E i \in 1 .. 2 : DoReadReturn(i)
    \/ \E i \in 1 .. 2 : DoLookupReturn(i)

SpecReaders == InitIO /\ [][NextReaders]_vars

\* ------------------------------------------------------------------ sizing
\* minQBits, the least number of quotient bits Config.QBits reports
minQBits == 4

\* Config.QBits and DetermineSize, the loop: x is doubled and bits counted
\* while float64(x) * MaxLoadingFactor < float64(entries), with
\* MaxLoadingFactor = 0.65 compared as 65 / 100
RECURSIVE sizeBits(_, _, _)
sizeBits(x, bits, entries) ==
    IF x * 65 < entries * 100 THEN sizeBits(2 * x, bits + 1, entries) ELSE bits

\* Config.QBits without the lower limit minQBits
qBitsOfLoop(c) == sizeBits(1, 0, c.ExpectedEntries)

\* Config.QBits
QBits(c) ==
    IF sizeBits(1, 0, c.ExpectedEntries) < minQBits THEN minQBits
    ELSE sizeBits(1, 0, c.ExpectedEntries)

\* Config.BucketCount
BucketCount(c) == Pow2(QBits(c))

\* Config.BytesRequired, bitsPerEntry is the remainder of a 64 bit hash
\* value, three metadata bits and the payload; the division is integral
BytesRequired(c) ==
    (BucketCount(c) * ((64 - QBits(c)) + 3 + c.BitsOfStoragePerEntry)) \div 8

\* Config.ExpectedLoading, the float64 quotient 100 * ExpectedEntries /
\* BucketCount kept as a fraction
ExpectedLoading(c) == [num |-> 100 * c.ExpectedEntries, den |-> BucketCount(c)]

\* DetermineSize that stops one doubling short
determineSizeShort(numberOfEntries, bitsOfStoragePerEntry) ==
    [QBits                 |-> IF sizeBits(1, 0, numberOfEntries) > 1
                               THEN sizeBits(1, 0, numberOfEntries) - 1
                               ELSE sizeBits(1, 0, numberOfEntries),
     BitsOfStoragePerEntry |-> bitsOfStoragePerEntry]

\* DetermineSize
DetermineSize(numberOfEntries, bitsOfStoragePerEntry) ==
    [QBits                 |-> sizeBits(1, 0, numberOfEntries),
     BitsOfStoragePerEntry |-> bitsOfStoragePerEntry]

\* the largest ExpectedEntries of the range every value of which is sized
MaxExpectedEntries == 90

\* the largest BitsOfStoragePerEntry a Config is sized with
MaxSizedStorageBits == 4

\* the ExpectedEntries of TestExpectedLoading and TestSizeEstimate
TestedEntries == {128, 5500000}

\* a Config with ExpectedEntries and BitsOfStoragePerEntry set
InitSizing ==
    /\ qf = NewWithConfig([QBits |-> 1, BitsOfStoragePerEntry |-> 0])
    /\ inserted = << >>
    /\ vec = NoVector
    /\ NoIO
    /\ \E e \in (0 .. MaxExpectedEntries) \cup TestedEntries,
          b \in 0 .. MaxSizedStorageBits :
          last = [op |-> "Config",
                  config |-> [ExpectedEntries |-> e, BitsOfStoragePerEntry |-> b]]

\* Config.ExplainIndent: QBits, BucketCount and BytesRequired are reported
DoExplain ==
    /\ last' = [op |-> "Explain", config |-> last.config,
                qBits       |-> QBits(last.config),
                bucketCount |-> BucketCount(last.config),
                bytes       |-> BytesRequired(last.config)]
    /\ UNCHANGED <<qf, inserted, vec, file, rcv, disk, readers>>

\* Config.ExpectedLoading
DoExpectedLoading ==
    /\ last' = [op |-> "ExpectedLoading", config |-> last.config,
                loading |-> ExpectedLoading(last.config)]
    /\ UNCHANGED <<qf, inserted, vec, file, rcv, disk, readers>>

NextSizing == DoExplain \/ DoExpectedLoading

SpecSizing == InitSizing /\ [][NextSizing]_vars

\* ------------------------------------------------------- a sized filter
\* the largest number of entries a filter is sized for
MaxExpected == 5

\* NewWithConfig(DetermineSize(expected, b)): an empty filter sized for
\* expected entries
InitSized ==
    /\ \E e \in 1 .. MaxExpected, b \in {0, StorageBits} :
          /\ qf = NewWithConfig(DetermineSize(e, b))
          /\ last = [op |-> "New", expected |-> e, calls |-> 0, update |-> FALSE]
    /\ inserted = << >>
    /\ vec = NoVector
    /\ NoIO

\* a call of InsertWithValue on the sized filter: up to MaxExpected distinct
\* hash values and one call more than that, the table grows up to MaxQBits
MayInsertSized(hv) ==
    /\ last.calls <= MaxExpected
    /\ \/ hv \in DOMAIN inserted
       \/ Cardinality(DOMAIN inserted) <
              (IF qf.storage = NoStorage THEN MaxExpected ELSE MaxLenStorage)
    /\ (qf.maxEntries <= qf.entries) => (qf.qBits < MaxQBits /\ qf.qBits + 1 < WordBits)

\* QF.InsertWithValue(key, value) on the sized filter, the calls are counted
DoInsertSized(hv, value) ==
    /\ MayInsertSized(hv)
    /\ \E r \in {InsertWithValue(qf, hv, value)} :
          /\ ~r.hang
          /\ qf' = r.qf
          /\ last' = [op |-> "InsertWithValue", expected |-> last.expected,
                      calls |-> last.calls + 1, update |-> r.update]
    /\ inserted' = [h \in (DOMAIN inserted) \cup {hv} |->
                       IF h = hv THEN value ELSE inserted[h]]
    /\ UNCHANGED <<vec, file, rcv, disk, readers>>

NextSized ==
    \E hv \in HashValues, value \in Values(qf.config.BitsOfStoragePerEntry) :
        DoInsertSized(hv, value)

SpecSized == InitSized /\ [][NextSized]_vars

\* ------------------------------------------------------------------ claims
Slots == 0 .. (qf.size - 1)

\* C1: every hash value that was handed to insert is found by lookup, after
\* any further inserts and the doublings they trigger (no false negatives)
C1_NoFalseNegatives == \A hv \in DOMAIN inserted : Contains(qf, hv)

\* C2: insert returns true exactly when the hash value had been inserted
\* before the call, and after the call the filter contains the hash value
C2_InsertReturn ==
    [][(last'.op = "InsertWithValue") =>
          /\ last'.update <=> (last'.hv \in DOMAIN inserted)
          /\ Contains(qf', last'.hv)]_vars

\* C3: Len() is the number of distinct hash values that were inserted
C3_EntryCount == QFLen(qf) = Cardinality(DOMAIN inserted)

\* C4: lookup of an inserted hash value returns (true, v) for the value v of
\* its latest insert, whatever was inserted in between
C4_PayloadRoundTrip ==
    (qf.storage # NoStorage) =>
        \A hv \in DOMAIN inserted :
            /\ Lookup(qf, hv).found
            /\ Lookup(qf, hv).value = inserted[hv]

\* C5: lookup finds a hash value only if it was inserted
C5_ExactOnHashValues ==
    \A hv \in HashValues : Contains(qf, hv) => hv \in DOMAIN inserted

\* C6: after every insert the consistency check passes
C6_Consistent == (last.op = "InsertWithValue") => checkConsistency(qf)

\* C7: when insert doubles the table (maxEntries <= entries), double() keeps
\* the result of every lookup: found with the same payload, or not found
C7_DoublingPreserves ==
    (qf.maxEntries <= qf.entries /\ qf.qBits + 1 < WordBits) =>
        LET d == double(qf)
        IN  /\ ~d.hang
            /\ \A hv \in HashValues :
                  /\ Lookup(d.qf, hv).found = Lookup(qf, hv).found
                  /\ Lookup(d.qf, hv).value = Lookup(qf, hv).value

\* C8: an insert of a hash value that is stored in the filter (its remainder
\* is in the run of its bucket), with no doubling, returns true and changes
\* nothing but the payload of the slot that holds it: entries, the metadata
\* bits, the remainders and every other payload stay as they were
C8_ReinsertFrame ==
    [][(/\ last'.op = "InsertWithValue"
        /\ ~last'.doubled
        /\ qf.occupied[hash(qf, last'.hv).dq]
        /\ \E k \in 1 .. Len(runOf(qf, hash(qf, last'.hv).dq)) :
               qf.remainders[runOf(qf, hash(qf, last'.hv).dq)[k]]
                   = hash(qf, last'.hv).dr) =>
          /\ last'.update
          /\ qf'.entries = qf.entries
          /\ qf'.occupied = qf.occupied
          /\ qf'.continuation = qf.continuation
          /\ qf'.shifted = qf.shifted
          /\ qf'.remainders = qf.remainders
          /\ (qf.storage # NoStorage) =>
                \E k \in 1 .. Len(runOf(qf, hash(qf, last'.hv).dq)) :
                   LET s == runOf(qf, hash(qf, last'.hv).dq)[k]
                   IN  /\ qf.remainders[s] = hash(qf, last'.hv).dr
                       /\ qf'.storage = [qf.storage EXCEPT ![s] = last'.value]]_vars

\* C9: inserting the empty key (hash value 0) when it was not inserted before
\* returns false and increases Len() by one, and the key is then found
C9_EmptyKey ==
    [][(last'.op = "InsertWithValue" /\ last'.hv = 0 /\ 0 \notin DOMAIN inserted) =>
          /\ ~last'.update
          /\ QFLen(qf') = QFLen(qf) + 1
          /\ Contains(qf', 0)]_vars

\* C10: along the run of every occupied bucket the remainders are in
\* non-decreasing order
C10_SortedRuns ==
    \A dq \in Slots :
        qf.occupied[dq] =>
            LET run == runOf(qf, dq)
            IN  \A k \in 1 .. (Len(run) - 1) :
                    qf.remainders[run[k]] <= qf.remainders[run[k + 1]]

\* C11: eachHashValue calls back exactly once for every inserted hash value,
\* with the slot that holds it (a non-empty slot of the run of its bucket
\* whose remainder is the hash value's), and for nothing else
C11_Enumeration ==
    LET e == eachHashValue(qf)
    IN  /\ ~e.hang
        /\ \A hv \in DOMAIN inserted :
              Cardinality({k \in 1 .. Len(e.calls) : e.calls[k][1] = hv}) = 1
        /\ \A k \in 1 .. Len(e.calls) :
              /\ e.calls[k][1] \in DOMAIN inserted
              /\ ~empty(read(qf, e.calls[k][2]))
              /\ qf.remainders[e.calls[k][2]] = hash(qf, e.calls[k][1]).dr
              /\ \E j \in 1 .. Len(runOf(qf, hash(qf, e.calls[k][1]).dq)) :
                    runOf(qf, hash(qf, e.calls[k][1]).dq)[j] = e.calls[k][2]

\* C15: for every width, every index below the size and every value of the
\* width, Get(ix) right after Set(ix, val) returns val, whatever the other
\* elements hold and whether or not element ix lies across two words
C15_SetGet ==
    (last.op = "Set") =>
        /\ ~vectorGet(vec, last.ix).panic
        /\ vectorGet(vec, last.ix).val = last.val

\* C15 witness: a bit-packed element lying across two words was set to the
\* all-ones value while the element before it held a non-zero value
C15_Straddle ==
    /\ last.op = "Set"
    /\ vec.kind = "packed"
    /\ last.ix > 0
    /\ getbitsOf((last.ix * last.bits) % bitsPerWord, last.bits) < last.bits
    /\ last.val = Pow2(last.bits) - 1
    /\ vectorGet(vec, last.ix - 1).val # 0

\* the file holds what WriteTo wrote for the filter, word for word
Written == file # << >> /\ file = WriteTo(Filter(qf))

\* the file holds less than WriteTo wrote: it ends n words early
EndsEarly(n) == file # << >> /\ Len(file) + n = Len(WriteTo(Filter(qf)))

\* Lookup on the Filter that was read gives what Lookup on the filter that
\* was written gives, for the key whose hash value is hv
SameLookup(hv) ==
    /\ ~FilterLookup(rcv.qf, hv, rcv.isLittleEndian).panic
    /\ FilterLookup(rcv.qf, hv, rcv.isLittleEndian).hang = Lookup(qf, hv).hang
    /\ FilterLookup(rcv.qf, hv, rcv.isLittleEndian).found = Lookup(qf, hv).found
    /\ FilterLookup(rcv.qf, hv, rcv.isLittleEndian).value = Lookup(qf, hv).value

\* C12: ReadFrom of what WriteTo wrote, into a freshly constructed Filter,
\* succeeds and gives a Filter with the same Len() and the same Lookup result
\* (found and payload) for every key
C12_RoundTrip ==
    (rcv.state = "read" /\ Written) =>
        /\ ~rcv.err
        /\ rcv.qf.entries = QFLen(qf)
        /\ \A hv \in HashValues : SameLookup(hv)

\* C13: after a ReadFrom that succeeded, BitsOfStoragePerEntry() is the
\* StorageBits of the header and the payloads are those of the storage
\* vector of the stream (none when the stream has none), whatever the
\* receiver was constructed with
C13_StorageOfStream ==
    (rcv.state = "read" /\ Written /\ ~rcv.err) =>
        /\ rcv.qf.config.BitsOfStoragePerEntry = file[4]
        /\ (file[4] = 0) => (rcv.qf.storage.kind = "none")
        /\ (file[4] > 0) =>
              \A i \in 0 .. (qf.size - 1) :
                  /\ ~readFn(rcv.qf.storage, i, rcv.isLittleEndian).err
                  /\ readFn(rcv.qf.storage, i, rcv.isLittleEndian).val = qf.storage[i]

\* Disk.Lookup of the key whose murmurhash64 value is m gives what Lookup on
\* the filter that was written gives for the hash value hv
SameOnDisk(m, hv) ==
    /\ ~DiskLookup(disk.disk, m, disk.isLittleEndian).panic
    /\ DiskLookup(disk.disk, m, disk.isLittleEndian).hang = Lookup(qf, hv).hang
    /\ DiskLookup(disk.disk, m, disk.isLittleEndian).found = Lookup(qf, hv).found
    /\ DiskLookup(disk.disk, m, disk.isLittleEndian).value = Lookup(qf, hv).value

\* C14: the Disk opened on the file a filter was written to returns for
\* every key the (found, payload) the filter returns; a key is given by its
\* hash value m under murmurhash64 and its hash value x under the hash
\* function the filter was configured with
C14_DiskEquivalence ==
    (disk.state = "opened" /\ Written) =>
        /\ ~disk.err
        /\ \A m \in HashValues :
              IF qf.config.HashFn = "murmurhash64" THEN SameOnDisk(m, m)
              ELSE \A x \in HashValues : SameOnDisk(m, x)

\* C16: InsertWithValue with a value of 2^B or more on a filter with B bits
\* of storage panics, with the bit-packed and with the unpacked vector
C16_OverflowPanics ==
    (/\ last.op = "InsertWithValue"
     /\ qf.config.BitsOfStoragePerEntry > 0
     /\ last.value >= Pow2(qf.config.BitsOfStoragePerEntry)) => last.panic

\* C17: ReadFrom on a stream whose header Version is not qfVersion returns an
\* error and leaves the receiving Filter as it was
C17_VersionRejected ==
    (rcv.state = "read" /\ Len(file) >= 5 /\ file[1] # qfVersion) =>
        /\ rcv.err
        /\ rcv.qf = rcv.before

\* C17 witness: ReadFrom was called on a stream with another Version whose
\* header tells of entries the receiver does not have
C17_OtherVersionRead ==
    /\ rcv.state = "read"
    /\ file[1] # qfVersion
    /\ file[2] > rcv.before.entries
    /\ file[3] > rcv.before.qBits
    /\ rcv.err

\* C18: OpenReadOnlyFromPath on a file whose header Version is not qfVersion
\* returns an error and no Disk
C18_OpenRejectsVersion ==
    (disk.state # "none" /\ Len(file) >= 5 /\ file[1] # qfVersion) =>
        /\ disk.err
        /\ disk.disk = NoDisk

\* the number of data words of the last vector WriteTo wrote
lastVectorWords ==
    IF Filter(qf).storage.kind = "none"
    THEN Cardinality(DOMAIN Filter(qf).filter.space)
    ELSE Cardinality(DOMAIN Filter(qf).storage.space)

\* C19: ReadFrom on a stream that ends inside the data words of a vector
\* returns an error, and OpenReadOnlyFromPath on a file that ends before the
\* end of a vector returns an error
C19_TruncationRejected ==
    /\ (rcv.state = "read" /\ \E n \in 1 .. lastVectorWords : EndsEarly(n)) => rcv.err
    /\ (disk.state # "none" /\ \E n \in 1 .. MaxCut : EndsEarly(n)) => disk.err

\* C20: after Close on a Disk that OpenReadOnlyFromPath returned without
\* error, the file descriptor os.Open acquired is closed
C20_CloseReleases ==
    (disk.state = "closed") => (disk.fd = "closed")

\* C21: when OpenReadOnlyFromPath returns an error after os.Open succeeded,
\* the file descriptor os.Open acquired has been closed
C21_FailedOpenReleases ==
    (disk.state = "opened" /\ disk.err) => (disk.fd = "closed")

\* C22: a read of the file that fails during Disk.Lookup is returned to the
\* caller as an error: the lookup does not panic (on a little-endian host
\* the reads that fail are those reaching beyond the end of the file)
C22_ReadErrorReturned ==
    (disk.state = "opened" /\ ~disk.err /\ disk.isLittleEndian) =>
        \A m \in HashValues : ~DiskLookup(disk.disk, m, disk.isLittleEndian).panic

\* C28: on a host that is not little-endian the read of element i through
\* the reader of a bit-packed file gives what Get(i) gives on the slot vector
\* that was written
C28_BigEndianRead ==
    (/\ disk.state = "opened" /\ ~disk.err /\ Written
     /\ ~disk.isLittleEndian /\ qf.config.BitPacked) =>
        \A i \in 0 .. (qf.size - 1) :
            /\ ~readFn(disk.disk.filterRead, i, disk.isLittleEndian).err
            /\ readFn(disk.disk.filterRead, i, disk.isLittleEndian).val
                   = vectorGet(Filter(qf).filter, i).val

\* C29 as stated: a bit-packed vector of size elements of width bits is
\* backed by, and written as, ceil(size * bits / bitsPerWord) + 1 words, and
\* the word count written before the data is that number
C29_WordsRoundedUp ==
    (vec.kind = "packed") =>
        /\ Cardinality(DOMAIN vec.space)
               = ((vec.size * vec.bits + bitsPerWord - 1) \div bitsPerWord) + 1
        /\ vectorWriteTo(vec)[4]
               = ((vec.size * vec.bits + bitsPerWord - 1) \div bitsPerWord) + 1

\* C29 amended: the vector is backed by, and written as,
\* floor(size * bits / bitsPerWord) + 1 words, the word count written before
\* the data is that number and the data follows it word for word
C29_WordsRoundedDown ==
    (vec.kind = "packed") =>
        /\ Cardinality(DOMAIN vec.space) = ((vec.size * vec.bits) \div bitsPerWord) + 1
        /\ vectorWriteTo(vec)[4] = ((vec.size * vec.bits) \div bitsPerWord) + 1
        /\ Len(vectorWriteTo(vec)) = 4 + ((vec.size * vec.bits) \div bitsPerWord) + 1
        /\ \A k \in DOMAIN vec.space : vectorWriteTo(vec)[5 + k] = vec.space[k]

\* C29 witness: a bit-packed vector whose bits do not fill a whole number of
\* words has had its last element set to a non-zero value
C29_PartWord ==
    /\ vec.kind = "packed"
    /\ (vec.size * vec.bits) % bitsPerWord # 0
    /\ last.op = "Set"
    /\ last.ix = vec.size - 1
    /\ last.val # 0

\* C23 as stated: after every InsertWithValue the load factor entries / size
\* is below 0.65
C23_LoadBelow ==
    (last.op = "InsertWithValue") => (qf.entries * 100 < 65 * qf.size)

\* C23 amended: after every InsertWithValue entries is at most
\* ceil(0.65 * size), the maxEntries of the table
C23_LoadAtMostCapacity ==
    (last.op = "InsertWithValue") =>
        /\ qf.entries <= (qf.size * 65 + 99) \div 100
        /\ qf.entries <= qf.maxEntries

\* C23 witness: an InsertWithValue that doubled the table first has stored a
\* new entry and filled the doubled table to its maxEntries
C23_AtCapacity ==
    /\ last.op = "InsertWithValue"
    /\ ~last.update
    /\ last.doubled
    /\ qf.entries = qf.maxEntries
    /\ qf.entries * 100 >= 65 * qf.size

\* ------------------------------------------------------------ termination
\* QF.findStart, first loop: the number of steps left from slot i to a slot
\* whose shifted bit is clear
RECURSIVE leftHops(_, _, _)
leftHops(f, i, hops) ==
    IF ~f.shifted[i] THEN hops
    ELSE IF hops > 2 * f.size THEN Hang
    ELSE leftHops(f, left(f, i), hops + 1)

\* QF.findStart, second loop: the number of steps right until complete has
\* caught up with runs
RECURSIVE rightHops(_, _, _, _, _)
rightHops(f, dq, runs, complete, hops) ==
    IF ~(runs > complete) THEN hops
    ELSE IF hops > 2 * f.size THEN Hang
    ELSE rightHops(f, right(f, dq), runs,
                   IF ~f.continuation[right(f, dq)] THEN complete + 1 ELSE complete,
                   hops + 1)

\* QF.findStart: the number of steps of the second loop after the first loop
\* has counted runs and complete from dq
RECURSIVE findStartHops(_, _, _, _, _, _)
findStartHops(f, dq, i, runs, complete, hops) ==
    IF ~f.shifted[i]
    THEN rightHops(f, dq, runs,
                   IF ~f.continuation[i] THEN complete + 1 ELSE complete, 0)
    ELSE IF hops > 2 * f.size THEN Hang
    ELSE findStartHops(f, dq, left(f, i),
                       IF f.occupied[i] THEN runs + 1 ELSE runs,
                       IF ~f.continuation[i] THEN complete + 1 ELSE complete,
                       hops + 1)

\* QF.insertByHash, the cascade shift: the number of slots written until the
\* displaced entry is the empty one
RECURSIVE shiftHops(_, _, _, _, _, _, _, _, _)
shiftHops(f, slot, dr, value, continuation, shifted, runStart, extendingRun, hops) ==
    IF empty([read(f, slot) EXCEPT !.continuation =
                  IF (slot = runStart) /\ extendingRun THEN TRUE ELSE @])
    THEN hops + 1
    ELSE IF hops > 2 * f.size THEN Hang
    ELSE shiftHops([f EXCEPT !.remainders[slot]   = dr,
                             !.storage            = IF f.storage = NoStorage THEN @
                                                    ELSE [@ EXCEPT ![slot] = value],
                             !.continuation[slot] = continuation,
                             !.shifted[slot]      = shifted],
                   right(f, slot), f.remainders[slot], storageGet(f, slot),
                   read(f, slot).continuation \/ ((slot = runStart) /\ extendingRun),
                   TRUE, runStart, extendingRun, hops + 1)

\* QF.insertByHash from the match test on: the steps of the cascade shift,
\* none when the entry at slot is updated
shiftAt(f, dq, dr, value, extendingRun, runStart, slot) ==
    IF slot = Hang THEN Hang
    ELSE IF dr = f.remainders[slot] THEN 0
    ELSE shiftHops([f EXCEPT !.entries = @ + 1], slot, dr, value,
                   slot # runStart, slot # dq, runStart, extendingRun, 0)

\* QF.insertByHash from the spot search on: the steps of the cascade shift
shiftFrom(f, dq, dr, value, extendingRun, runStart) ==
    IF runStart = Hang THEN Hang
    ELSE shiftAt(f, dq, dr, value, extendingRun, runStart,
                 IF extendingRun THEN spotInRun(f, runStart, dr, 0) ELSE runStart)

\* QF.insertByHash: the steps of findStart's two loops and of the cascade
\* shift, none of them run when the slot of dq is empty
insertHops(f, dq, dr, value) ==
    IF empty(read(f, dq)) THEN [left |-> 0, right |-> 0, shift |-> 0]
    ELSE [left  |-> leftHops([f EXCEPT !.occupied[dq] = TRUE], dq, 0),
          right |-> findStartHops([f EXCEPT !.occupied[dq] = TRUE], dq, dq, 1, 0, 0),
          shift |-> shiftFrom([f EXCEPT !.occupied[dq] = TRUE], dq, dr, value,
                              f.occupied[dq],
                              findStart([f EXCEPT !.occupied[dq] = TRUE], dq))]

\* QF.InsertWithValue: the table insertByHash works on, the doubled one when
\* the filter is at capacity
preInsert(f) == IF f.maxEntries <= f.entries THEN double(f).qf ELSE f

\* QF.InsertWithValue of hash value hv: the steps of its loops
hopsOfInsert(f, hv) == insertHops(f, hash(f, hv).dq, hash(f, hv).dr, 0)

\* a loop that ended after h steps ended, and within S steps
within(h, S) == (h # Hang) /\ (h <= S)

C25_NoDoublingWhileExpected ==
    (last.op = "InsertWithValue" /\ last.calls <= last.expected) =>
        /\ qf.qBits = DetermineSize(last.expected, 0).QBits
        /\ qf.size = Pow2(DetermineSize(last.expected, 0).QBits)

\* C25 witness: MaxExpected distinct hash values were inserted by as many
\* calls into a filter sized for MaxExpected entries
C25_ExpectedInserted ==
    /\ last.op = "InsertWithValue"
    /\ last.expected = MaxExpected
    /\ last.calls = last.expected
    /\ Cardinality(DOMAIN inserted) = last.expected
    /\ qf.entries = last.expected

\* -------------------------------------------------------------- byte counts
\* unsafe.Sizeof(QFHeader): four uint64 and a bool, padded to a multiple of
\* the alignment of uint64
sizeofQFHeader == 40

\* unsafe.Sizeof(packedHeader): three uint64
sizeofPackedHeader == 24

\* writeUintSlice, the count it returns: 8 for the length and the bytes of
\* the data, every element a uint64
writeUintSliceCount(space) == 8 + 8 * Cardinality(DOMAIN space)

\* packed.WriteTo / unpacked.WriteTo, the count returned
vectorWriteToCount(v) ==
    IF v.kind = "packed"
    THEN writeUintSliceCount(v.space) + sizeofPackedHeader
    ELSE writeUintSliceCount(v.space)

\* Filter.WriteTo, the count returned
WriteToCount(F) ==
    sizeofQFHeader + vectorWriteToCount(F.filter)
        + (IF F.storage.kind = "none" THEN 0 ELSE vectorWriteToCount(F.storage))

\* the bytes binary.Write and Write put on the stream for the words of s:
\* the QFHeader is encoded field by field, four uint64 of 8 bytes and the
\* bool BitPacked of one byte, every other word is a uint64
bytesWritten(s) == (4 * 8 + 1) + 8 * (Len(s) - 5)

\* packed.ReadFrom / unpacked.ReadFrom without error, the count returned: r
\* is what reading from the words s returned, header, length and data
\* count 8 bytes for every word consumed
vectorReadCount(s, r) == 8 * (Len(s) - Len(r.rest))

\* Filter.ReadFrom without error, the count returned
ReadFromCount(F, s, le) ==
    sizeofQFHeader
        + vectorReadCount(from(s, 6), vectorReadFrom(F.filter, from(s, 6), le))
        + (IF s[4] > 0
           THEN vectorReadCount(vectorReadFrom(F.filter, from(s, 6), le).rest,
                    vectorReadFrom(IF F.storage.kind = "none"
                                   THEN allocfn(F.config, 0, 0) ELSE F.storage,
                                   vectorReadFrom(F.filter, from(s, 6), le).rest, le))
           ELSE 0)

\* C26: the count WriteTo returns is the number of bytes it wrote to the
\* stream, and a ReadFrom of that stream that succeeds returns the same
\* count
C26_ByteCounts ==
    /\ Written => (WriteToCount(Filter(qf)) = bytesWritten(file))
    /\ (Written /\ rcv.state = "read" /\ ~rcv.err) =>
          (ReadFromCount(rcv.before, file, rcv.isLittleEndian)
              = WriteToCount(Filter(qf)))

C31_DoublesOnce ==
    /\ (qf.maxEntries <= qf.entries /\ qf.qBits + 1 < WordBits) =>
          \A d \in {double(qf)} :
              /\ ~d.hang
              /\ d.qf.qBits = qf.qBits + 1
              /\ d.qf.size = 2 * qf.size
              /\ d.qf.entries = qf.entries
              /\ d.qf.config.BitsOfStoragePerEntry = qf.config.BitsOfStoragePerEntry
              /\ \A hv \in HashValues :
                    /\ Lookup(d.qf, hv).found = Lookup(qf, hv).found
                    /\ Lookup(d.qf, hv).value = Lookup(qf, hv).value
                    /\ InsertWithValue(qf, hv, 0).qf.qBits = qf.qBits + 1
    /\ (qf.entries < qf.maxEntries) =>
          \A hv \in HashValues : InsertWithValue(qf, hv, 0).qf.qBits = qf.qBits

\* C32: an insert that does not double the table sets the occupied bit of
\* the quotient of its hash value and leaves the occupied bit of every other
\* index as it was, set or clear, whatever its cascade shift rewrites
C32_OccupiedOfIndex ==
    [][(last'.op = "InsertWithValue" /\ ~last'.doubled) =>
          \A i \in Slots :
              qf'.occupied[i] = (qf.occupied[i] \/ i = hash(qf, last'.hv).dq)]_vars

\* C32 witness: an insert without doubling has stored a new entry, and an
\* index other than its quotient has its occupied bit set while its slot
\* holds a shifted entry
C32_ShiftedUnderOccupied ==
    /\ last.op = "InsertWithValue" /\ ~last.doubled /\ ~last.update
    /\ \E i \in Slots :
          /\ i # hash(qf, last.hv).dq
          /\ qf.occupied[i] /\ qf.shifted[i]
    /\ Cardinality({i \in Slots : qf.shifted[i]}) >= 2

\* C33: every non-empty slot i lies in the run of exactly one occupied
\* bucket dq, the canonical bucket of the fingerprint it stores; its shifted
\* bit is set exactly when dq is not i, and its continuation bit is set
\* exactly when it is not the first slot of that run, that is when the slot
\* before it stores a fingerprint of the same bucket
C33_BitsMatchBuckets ==
    \A i \in Slots :
        ~empty(read(qf, i)) =>
            /\ Cardinality({dq \in Slots :
                   /\ qf.occupied[dq]
                   /\ \E k \in 1 .. Len(runOf(qf, dq)) : runOf(qf, dq)[k] = i}) = 1
            /\ \A dq \in Slots :
                  qf.occupied[dq] =>
                      \A k \in 1 .. Len(runOf(qf, dq)) :
                          (runOf(qf, dq)[k] = i) =>
                              /\ qf.shifted[i] <=> (dq # i)
                              /\ qf.continuation[i] <=> (k > 1)

\* C34: Set(ix, val) on a bit-packed vector changes element ix only: Get of
\* every other index returns after the call what it returned before, for
\* the elements sharing a word with ix and when ix lies across two words
C34_SetFrame ==
    [][(last'.op = "Set" /\ vec.kind = "packed") =>
          \A j \in 0 .. (vec.size - 1) :
              (j # last'.ix) =>
                  /\ ~vectorGet(vec', j).panic
                  /\ vectorGet(vec', j).val = vectorGet(vec, j).val]_vars

\* C34 witness: a bit-packed element lying across two words was set to zero
\* while the elements before and after it, in those two words, hold
\* non-zero values
C34_BetweenNeighbours ==
    /\ last.op = "Set"
    /\ vec.kind = "packed"
    /\ last.val = 0
    /\ getbitsOf((last.ix * last.bits) % bitsPerWord, last.bits) < last.bits
    /\ last.ix > 0 /\ last.ix + 1 < vec.size
    /\ vectorGet(vec, last.ix - 1).val # 0
    /\ vectorGet(vec, last.ix + 1).val # 0

\* C35: in a bit-packed vector allocated for size elements of any width,
\* Get and Set (and so Swap) of every index below size touch only words of
\* the space allocated, the second word of an element lying across two
\* words included: none of them panics on a word outside the space
C35_InsideSpace ==
    (vec.kind = "packed") =>
        /\ Cardinality(DOMAIN vec.space) = wordsRequired(vec.bits, vec.size)
        /\ \A ix \in 0 .. (vec.size - 1) :
              /\ ~packedGet(vec, ix).panic
              /\ \A val \in TestValues(vec.bits) : ~packedSet(vec, ix, val).panic
              /\ ((ix + 1) * vec.bits - 1) \div bitsPerWord \in DOMAIN vec.space

\* C35 witness: the last element of a bit-packed vector lies across two
\* words, the second of them the last word of the space, and was set to the
\* all-ones value
C35_LastWordUsed ==
    /\ vec.kind = "packed"
    /\ last.op = "Set"
    /\ last.ix = vec.size - 1
    /\ last.val = Pow2(vec.bits) - 1
    /\ getbitsOf((last.ix * vec.bits) % bitsPerWord, vec.bits) < vec.bits
    /\ ((last.ix * vec.bits) \div bitsPerWord) + 1 = Cardinality(DOMAIN vec.space) - 1
    /\ vec.space[Cardinality(DOMAIN vec.space) - 1] # 0

C37_AbortLeavesFilter ==
    [][(last'.op = "InsertWithValue" /\ last'.panic) =>
          /\ qf'.entries = qf.entries
          /\ qf'.occupied = qf.occupied
          /\ qf'.continuation = qf.continuation
          /\ qf'.shifted = qf.shifted
          /\ qf'.remainders = qf.remainders
          /\ qf'.storage = qf.storage]_vars

\* C38: a ReadFrom that fails after it accepted the header (the stream holds
\* the whole header with the Version expected, and reading the slot vector or
\* the storage vector returned an error) leaves the receiver unchanged: its
\* entries, qBits, size and vectors are those it had before the call
C38_FailedReadLeavesReceiver ==
    (/\ rcv.state = "read"
     /\ rcv.err
     /\ Len(file) >= 5
     /\ file[1] = qfVersion) =>
        /\ rcv.qf.entries = rcv.before.entries
        /\ rcv.qf.qBits = rcv.before.qBits
        /\ rcv.qf.size = rcv.before.size
        /\ rcv.qf.filter = rcv.before.filter
        /\ rcv.qf.storage = rcv.before.storage

\* QF.insertByHash called for every hash value of the set hvs, the lowest
\* first, on the table r.qf that the calls before have left
RECURSIVE insertAscending(_, _)
insertAscending(r, hvs) ==
    IF r.hang \/ hvs = {} THEN r
    ELSE LET lo == CHOOSE x \in hvs : \A y \in hvs : x <= y
         IN  insertAscending(insertByHash(r.qf, hash(r.qf, lo).dq,
                                          hash(r.qf, lo).dr, 0),
                             hvs \ {lo})

\* the table of the size and configuration of f that holds the hash values
\* hvs, inserted into the empty table in ascending order
tableOf(f, hvs) ==
    insertAscending([qf |-> NewWithConfig(f.config), update |-> FALSE, hang |-> FALSE],
                    hvs).qf

\* tables f and g have the same metadata bits and the same remainder in
\* every slot
sameSlots(f, g) ==
    /\ f.size = g.size
    /\ f.occupied = g.occupied
    /\ f.continuation = g.continuation
    /\ f.shifted = g.shifted
    /\ f.remainders = g.remainders

\* C39: at a fixed table size the slots are a function of the set of hash
\* values stored, whatever the order of the inserts: when the table is the
\* one that the hash values inserted have in ascending order, an
\* InsertWithValue of one more hash value that does not double leaves the
\* table that the larger set has in ascending order
C39_OrderIndependent ==
    [][(/\ last'.op = "InsertWithValue"
        /\ ~last'.doubled
        /\ last'.hv \notin DOMAIN inserted
        /\ Cardinality(DOMAIN inserted') <= qf.maxEntries
        /\ sameSlots(qf, tableOf(qf, DOMAIN inserted))) =>
            sameSlots(qf', tableOf(qf, DOMAIN inserted'))]_vars

====
